---- MODULE Spec2Model ----
(***************************************************************************)
(* Event dispatch core of D++ (include/dpp/dispatcher.h).                  *)
(*                                                                         *)
(* The state is the dispatcher object (one std::vector of listeners per    *)
(* event kind), the thread-local cancellation flag that cancel_event() and *)
(* is_cancelled() act on ("event cancellation is a thread local state, and *)
(* not stored in the object"), and, per thread, the call stack of the      *)
(* call_event() activations in progress.  A listener is user code: what it *)
(* does when invoked (cancel the event, dispatch another event, return) is *)
(* an input chosen at every step.                                          *)
(*                                                                         *)
(* A frame also keeps the history of its dispatch (the listeners invoked,  *)
(* the cancel_event() calls made through its payload), and `outcome` keeps *)
(* how a thread's last event ended (call_event returned, a listener        *)
(* raised, or the payload was dropped undecoded) until the thread          *)
(* constructs its next event; the program never reads these, and a frame's *)
(* fields go when call_event is left.                                      *)
(***************************************************************************)
EXTENDS Integers, Sequences, FiniteSets, TLC

\* Bounds of the model.
MaxListeners == 3   \* registrations made over a run, all kinds together
MaxEvents == 2      \* event objects constructed over a run
MaxCancels == 2     \* cancel_event() calls made through one event

\* Threads that drive dispatch (one per shard connection).
Threads == {"shard0", "shard1"}

\* Event kinds: the fields of class dispatcher that the model keeps.
Kinds == {"log", "message_create", "interaction_create", "autocomplete"}

\* The kinds whose event types derive from interaction_create_t.
Interactions == {"interaction_create", "autocomplete"}

VARIABLES
    dispatcher,   \* [Kinds -> Seq(registration id)]: the listener vectors
    cancelled,    \* [Threads -> BOOLEAN]: the thread-local cancellation flag
    stack,        \* [Threads -> Seq(frame)]: call_event() activations
    constructed,  \* number of event objects constructed so far
    crashed,      \* the process has died of undefined behaviour
    outcome,      \* [Threads -> how the thread's last call_event ended]
    query         \* an interaction event and the last get_parameter() on it

vars == <<dispatcher, cancelled, stack, constructed, crashed, outcome, query>>

----------------------------------------------------------------------------
\* Helpers

RECURSIVE SumLen(_)
SumLen(S) ==
    IF S = {} THEN 0
    ELSE LET k == CHOOSE x \in S : TRUE
         IN  Len(dispatcher[k]) + SumLen(S \ {k})

\* Number of registrations made so far, all kinds together.
Registered == SumLen(Kinds)

Range(s) == {s[i] : i \in DOMAIN s}

Top(t) == stack[t][Len(stack[t])]

Running(t) == stack[t] # <<>>

\* What a read of freed or foreign storage yields in place of a listener.
Garbage == <<"garbage", 0>>

\* *it of the for_each loop (a listener is named <<kind, n>>: the n-th
\* registration of its kind); reading past the elements yields garbage.
Elem(vec, i) == IF i \in DOMAIN vec THEN vec[i] ELSE Garbage

\* Faulty variant: the kinds of the interaction family share one vector.
chain_for_shared(k) ==
    dispatcher[IF k \in Interactions THEN "interaction_create" ELSE k]

\* The vector of kind k: the field of class dispatcher named k.
chain_for(k) == dispatcher[k]

----------------------------------------------------------------------------
\* event_dispatch_t

\* bool is_cancelled() const: reads the calling thread's flag.
is_cancelled(t) == cancelled[t]

\* Faulty variant: one flag for the whole process.
cancel_event_global(t) == [u \in Threads |-> TRUE]

\* const event_dispatch_t& cancel_event() const: sets the calling thread's flag.
cancel_event(t) == [cancelled EXCEPT ![t] = TRUE]

\* The raw data the protocol layer hands over for an event of kind k.
Raw(k) == <<"payload", k>>

\* Faulty variant: cancel_event() records the cancellation in the object.
cancel_event_object_stored(e) == [e EXCEPT !.from = "nullptr"]

\* cancel_event() is a const member and returns *this: the event object (a
\* frame's raw_event and from) is as it was.
cancel_event_object(e) == e

\* Faulty variant: the constructor leaves the flag as it finds it.
event_dispatch_t_noreset(t) == cancelled

\* event_dispatch_t(client, raw): a new event starts not cancelled.
event_dispatch_t(t) == [cancelled EXCEPT ![t] = FALSE]

----------------------------------------------------------------------------
\* call_event: std::for_each(vec.begin(), vec.end(), ...)

\* Faulty variant: the range stops one element early.
vec_end_short(k) == IF Len(chain_for(k)) > 0 THEN Len(chain_for(k)) - 1 ELSE 0

\* vec.end(), evaluated once when for_each is called.
vec_end(k) == Len(chain_for(k))

\* Faulty variant: the test is inverted.
ShouldCall_inverted(t) == is_cancelled(t)

\* if (!event.is_cancelled()): the test made before each listener.
ShouldCall(t) == ~is_cancelled(t)

\* Faulty variant: the loop runs one element past the end.
AtEnd_late(f) == f.idx > f.last + 1

\* Faulty variant: the loop stops after the first element.
AtEnd_early(f) == f.idx > 1

\* first == last in for_each.
AtEnd(f) == f.idx > f.last

----------------------------------------------------------------------------
\* interaction_create_t and the event types deriving from it

\* Bounds of the get_parameter() model.
MaxOptions == 2     \* options of the command of an interaction

\* The event types with a get_parameter() of their own.
InteractionTypes ==
    {"interaction_create", "button_click", "autocomplete", "select_click"}

\* Names of command options, and names asked for.
Names == {"user", "reason"}

\* The empty command_value (std::monostate).
Absent == "absent"

\* Values of command options: the empty variant, a string, an integer.
Values == {Absent, "text", "42"}

\* The option lists of a command: up to MaxOptions options, each a name and
\* a value; two options may carry the same name.
OptionLists ==
    UNION {[1..n -> [name : Names, value : Values]] : n \in 0..MaxOptions}

\* The first option of the list that is called name, in list order.
RECURSIVE Lookup(_, _)
Lookup(options, name) ==
    IF options = <<>> THEN Absent
    ELSE IF Head(options).name = name THEN Head(options).value
    ELSE Lookup(Tail(options), name)

\* Faulty variant: the event types deriving from interaction_create_t
\* inherit its get_parameter().
get_parameter_inherited(type, options, name) == Lookup(options, name)

\* Faulty variant: every event type answers with the empty value.
get_parameter_empty(type, options, name) == Absent

\* get_parameter(name), a virtual member: interaction_create_t looks the name
\* up among the options of its command; button_click_t, autocomplete_t and
\* select_click_t override it and always return an empty parameter.
get_parameter(type, options, name) ==
    IF type = "interaction_create" THEN Lookup(options, name) ELSE Absent

\* No interaction event has been constructed.
NoQuery == [type |-> "none", options |-> <<>>, name |-> "none",
            value |-> Absent, asked |-> FALSE]

\* An interaction event of one of the four types is constructed from a
\* command with the given options.
ConstructInteraction(type, options) ==
    /\ query' = [type |-> type, options |-> options, name |-> "none",
                 value |-> Absent, asked |-> FALSE]
    /\ UNCHANGED <<dispatcher, cancelled, stack, constructed, crashed, outcome>>

\* A listener calls event.get_parameter(name).
GetParameter(name) ==
    /\ query.type \in InteractionTypes
    /\ query' = [query EXCEPT !.name = name, !.asked = TRUE,
                    !.value = get_parameter(query.type, query.options, name)]
    /\ UNCHANGED <<dispatcher, cancelled, stack, constructed, crashed, outcome>>

----------------------------------------------------------------------------

Init ==
    /\ dispatcher = [k \in Kinds |-> <<>>]
    /\ cancelled = [t \in Threads |-> FALSE]
    /\ stack = [t \in Threads |-> <<>>]
    /\ constructed = 0
    /\ crashed = FALSE
    /\ outcome = [t \in Threads |-> "none"]
    /\ query = NoQuery

\* A frame still reads elements of the vector of kind k.
Iterating(f, k) ==
    /\ f.kind = k
    /\ f.pc \in {"loop", "body"}
    /\ f.idx <= f.last

Invalidate(s, k) ==
    [i \in DOMAIN s |->
        IF Iterating(s[i], k) THEN [s[i] EXCEPT !.dangling = TRUE] ELSE s[i]]

\* Faulty variant: the listener is put at the front of the vector.
Subscribe_prepend(k, realloc) ==
    /\ ~crashed
    /\ Registered < MaxListeners
    /\ dispatcher' = [dispatcher EXCEPT ![k] = <<<<k, Len(@) + 1>>>> \o @]
    /\ stack' = [t \in Threads |-> Invalidate(stack[t], k)]
    /\ UNCHANGED <<cancelled, constructed, crashed, outcome, query>>

\* Faulty variant: subscribing waits until no dispatch is in progress.
Subscribe_locked(k, realloc) ==
    /\ ~crashed
    /\ Registered < MaxListeners
    /\ \A t \in Threads : ~Running(t)
    /\ dispatcher' = [dispatcher EXCEPT ![k] = Append(@, <<k, Len(@) + 1>>)]
    /\ UNCHANGED <<cancelled, stack, constructed, crashed, outcome, query>>

\* on_<kind>(listener): push_back on the vector of kind k.  `realloc` says
\* whether the push_back reallocates (the vector was at capacity), which
\* invalidates the iterators of every for_each running over this vector.
Subscribe(k, realloc) ==
    /\ ~crashed
    /\ Registered < MaxListeners
    /\ dispatcher' = [dispatcher EXCEPT ![k] = Append(@, <<k, Len(@) + 1>>)]
    /\ stack' = IF realloc
                THEN [t \in Threads |-> Invalidate(stack[t], k)]
                ELSE stack
    /\ UNCHANGED <<cancelled, constructed, crashed, outcome, query>>

\* Thread t constructs an event of kind k: from the protocol layer when the
\* thread is idle, or from the listener it is running (a nested dispatch).
\* Frame fields: kind, last (vec.end()), idx (the for_each iterator), pc,
\* dangling (the iterators are invalid); history: vec (the vector when
\* call_event was entered), calls (listeners invoked), cancels (cancel_event()
\* calls through this payload), at (idx of the listener that made the first),
\* heard (idx reached when a cancel_event() first ran on this thread during
\* the dispatch, nested dispatches included; 0: none), chain (a listener
\* registered on this dispatch's chain has called cancel_event() during it),
\* leftover (the thread's flag as the constructor found it), prior (how the
\* thread's previous call_event ended).  The envelope of the event:
\* raw_event (one payload stands for all payloads of a kind) and from (the
\* shard whose thread constructs the event).
Construct(t, k) ==
    /\ ~crashed
    /\ constructed < MaxEvents
    /\ \/ ~Running(t)
       \/ /\ Running(t)
          /\ Top(t).pc = "body"
    /\ cancelled' = event_dispatch_t(t)
    /\ stack' = [stack EXCEPT ![t] =
           Append(@, [kind |-> k, last |-> 0, idx |-> 1, pc |-> "constructed",
                      dangling |-> FALSE, vec |-> <<>>, calls |-> <<>>,
                      cancels |-> 0, at |-> 0, heard |-> 0, chain |-> FALSE,
                      leftover |-> cancelled[t], prior |-> outcome[t],
                      entered |-> FALSE,
                      raw_event |-> Raw(k), from |-> t])]
    /\ constructed' = constructed + 1
    /\ outcome' = [outcome EXCEPT ![t] = "none"]
    /\ UNCHANGED <<dispatcher, crashed, query>>

\* Faulty variant: an event is constructed from the payload that could not be
\* decoded, and dispatched.
Drop_dispatching(t) ==
    /\ ~crashed
    /\ ~Running(t)
    /\ cancelled' = event_dispatch_t(t)
    /\ stack' = [stack EXCEPT ![t] =
           <<[kind |-> "log", last |-> 0, idx |-> 1, pc |-> "constructed",
              dangling |-> FALSE, vec |-> <<>>, calls |-> <<>>,
              cancels |-> 0, at |-> 0, heard |-> 0, chain |-> FALSE,
              leftover |-> cancelled[t], prior |-> outcome[t],
                      entered |-> FALSE,
              raw_event |-> Raw("log"), from |-> t]>>]
    /\ outcome' = [outcome EXCEPT ![t] = "dropped"]
    /\ UNCHANGED <<dispatcher, constructed, crashed, query>>

\* The protocol layer of idle thread t receives a payload it cannot decode:
\* the error is its own to report, no event is constructed and call_event is
\* not called.
Drop(t) ==
    /\ ~crashed
    /\ ~Running(t)
    /\ outcome' = [outcome EXCEPT ![t] = "dropped"]
    /\ UNCHANGED <<dispatcher, cancelled, stack, constructed, crashed, query>>

\* Faulty variant: call_event clears the cancellation flag when it is entered.
CallEvent_clearing(t) ==
    /\ ~crashed
    /\ Running(t)
    /\ Top(t).pc = "constructed"
    /\ LET f == Top(t)
       IN  stack' = [stack EXCEPT ![t][Len(stack[t])] =
               [f EXCEPT !.pc = "loop", !.idx = 1, !.last = vec_end(f.kind),
                         !.vec = chain_for(f.kind),
                         !.entered = is_cancelled(t)]]
    /\ cancelled' = [cancelled EXCEPT ![t] = FALSE]
    /\ UNCHANGED <<dispatcher, constructed, crashed, outcome, query>>

\* call_event(vec, event) is entered: for_each takes vec.begin() and vec.end().
CallEvent(t) ==
    /\ ~crashed
    /\ Running(t)
    /\ Top(t).pc = "constructed"
    /\ LET f == Top(t)
       IN  stack' = [stack EXCEPT ![t][Len(stack[t])] =
               [f EXCEPT !.pc = "loop", !.idx = 1, !.last = vec_end(f.kind),
                         !.vec = chain_for(f.kind),
                         !.entered = is_cancelled(t)]]
    /\ UNCHANGED <<dispatcher, cancelled, constructed, crashed, outcome, query>>

\* cancel_event() is called on an event that has been constructed and not yet
\* passed to call_event.
CancelBeforeDispatch(t) ==
    /\ ~crashed
    /\ Running(t)
    /\ Top(t).pc = "constructed"
    /\ Top(t).cancels < MaxCancels
    /\ cancelled' = cancel_event(t)
    /\ stack' = [stack EXCEPT ![t] =
           [i \in DOMAIN stack[t] |->
               LET f == stack[t][i]
               IN  IF i = Len(stack[t])
                   THEN cancel_event_object([f EXCEPT !.cancels = @ + 1])
                   ELSE [f EXCEPT !.heard = IF @ = 0 THEN f.idx ELSE @]]]
    /\ UNCHANGED <<dispatcher, constructed, crashed, outcome, query>>

\* The event of a call_event that has reached vec.end() is passed to
\* call_event again: for_each starts over with the same event object.
CallEventAgain(t) ==
    /\ ~crashed
    /\ Running(t)
    /\ Top(t).pc = "loop"
    /\ AtEnd(Top(t))
    /\ LET f == Top(t)
       IN  stack' = [stack EXCEPT ![t][Len(stack[t])] =
               [f EXCEPT !.pc = "loop", !.idx = 1, !.last = vec_end(f.kind),
                         !.vec = chain_for(f.kind), !.calls = <<>>,
                         !.dangling = FALSE,
                         !.entered = is_cancelled(t)]]
    /\ UNCHANGED <<dispatcher, cancelled, constructed, crashed, outcome, query>>

\* Faulty variant: a listener is called only while no other thread is inside
\* one (a lock of the dispatcher held across the call).
Invoke_serialized(t) ==
    /\ ~crashed
    /\ Running(t)
    /\ Top(t).pc = "loop"
    /\ ~AtEnd(Top(t))
    /\ ShouldCall(t)
    /\ \A u \in Threads \ {t} : ~(Running(u) /\ Top(u).pc = "body")
    /\ LET f == Top(t)
       IN  stack' = [stack EXCEPT ![t][Len(stack[t])] =
               [f EXCEPT !.pc = "body",
                         !.calls = Append(@, Elem(chain_for(f.kind), f.idx))]]
    /\ UNCHANGED <<dispatcher, cancelled, constructed, crashed, outcome, query>>

\* if (!event.is_cancelled()) { ev(event); }: the listener is called.
Invoke(t) ==
    /\ ~crashed
    /\ Running(t)
    /\ Top(t).pc = "loop"
    /\ ~AtEnd(Top(t))
    /\ ShouldCall(t)
    /\ LET f == Top(t)
       IN  \E l \in {Garbage, Elem(chain_for(f.kind), f.idx)} :
              \* a dangling iterator reads freed storage: the element as it
              \* was, or garbage
              /\ f.dangling \/ l = Elem(chain_for(f.kind), f.idx)
              /\ stack' = [stack EXCEPT ![t][Len(stack[t])] =
                     [f EXCEPT !.pc = "body", !.calls = Append(@, l)]]
    /\ UNCHANGED <<dispatcher, cancelled, constructed, crashed, outcome, query>>

\* if (!event.is_cancelled()) fails: the element is passed over.
Skip(t) ==
    /\ ~crashed
    /\ Running(t)
    /\ Top(t).pc = "loop"
    /\ ~AtEnd(Top(t))
    /\ ~ShouldCall(t)
    /\ stack' = [stack EXCEPT ![t][Len(stack[t])].idx = @ + 1]
    /\ UNCHANGED <<dispatcher, cancelled, constructed, crashed, outcome, query>>

\* for_each has reached vec.end(): call_event returns and the event dies.
Return(t) ==
    /\ ~crashed
    /\ Running(t)
    /\ Top(t).pc = "loop"
    /\ AtEnd(Top(t))
    /\ stack' = [stack EXCEPT ![t] = SubSeq(@, 1, Len(@) - 1)]
    /\ outcome' = [outcome EXCEPT ![t] = "returned"]
    /\ UNCHANGED <<dispatcher, cancelled, constructed, crashed, query>>

\* The running listener calls event.cancel_event().
ListenerCancel(t) ==
    /\ ~crashed
    /\ Running(t)
    /\ Top(t).pc = "body"
    /\ Top(t).cancels < MaxCancels
    /\ cancelled' = cancel_event(t)
    /\ stack' = [stack EXCEPT ![t] =
           [i \in DOMAIN stack[t] |->
               LET f == stack[t][i]
                   g == [f EXCEPT !.heard = IF @ = 0 THEN f.idx ELSE @,
                                  !.chain = @ \/ f.kind = Top(t).kind]
               IN  IF i = Len(stack[t])
                   THEN cancel_event_object(
                            [g EXCEPT !.cancels = @ + 1,
                                      !.at = IF @ = 0 THEN f.idx ELSE @])
                   ELSE g]]
    /\ UNCHANGED <<dispatcher, constructed, crashed, outcome, query>>

\* Faulty variant: the iterator is one cursor shared by the dispatches of a
\* kind, so a listener that returns advances every loop over that chain.
ListenerReturn_shared_cursor(t) ==
    /\ ~crashed
    /\ Running(t)
    /\ Top(t).pc = "body"
    /\ stack' = [u \in Threads |->
           [i \in DOMAIN stack[u] |->
               LET f == stack[u][i]
               IN  IF u = t /\ i = Len(stack[t])
                   THEN [f EXCEPT !.pc = "loop", !.idx = @ + 1]
                   ELSE IF i = Len(stack[u]) /\ f.kind = Top(t).kind
                           /\ f.pc # "constructed" /\ ~AtEnd(f)
                        THEN [f EXCEPT !.idx = @ + 1]
                        ELSE f]]
    /\ UNCHANGED <<dispatcher, cancelled, constructed, crashed, outcome, query>>

\* Faulty variant: the iterator is not advanced when the listener returns, so
\* the loop calls the same listener again.
ListenerReturn_repeating(t) ==
    /\ ~crashed
    /\ Running(t)
    /\ Top(t).pc = "body"
    /\ stack' = [stack EXCEPT ![t][Len(stack[t])] = [@ EXCEPT !.pc = "loop"]]
    /\ UNCHANGED <<dispatcher, cancelled, constructed, crashed, outcome, query>>

\* The running listener returns: ++first.
ListenerReturn(t) ==
    /\ ~crashed
    /\ Running(t)
    /\ Top(t).pc = "body"
    /\ stack' = [stack EXCEPT ![t][Len(stack[t])] =
           [@ EXCEPT !.pc = "loop", !.idx = @ + 1]]
    /\ UNCHANGED <<dispatcher, cancelled, constructed, crashed, outcome, query>>

\* Faulty variant: a listener that raises is taken off its chain.
ListenerThrow_dropping(t) ==
    /\ ~crashed
    /\ Running(t)
    /\ Top(t).pc = "body"
    /\ stack' = [stack EXCEPT ![t] = SubSeq(@, 1, Len(@) - 1)]
    /\ outcome' = [outcome EXCEPT ![t] = "raised"]
    /\ dispatcher' = [dispatcher EXCEPT ![Top(t).kind] =
                          SubSeq(@, 1, Len(@) - 1)]
    /\ UNCHANGED <<cancelled, constructed, crashed, query>>

\* Faulty variant: the loop catches the exception and goes on to the next
\* listener.
ListenerThrow_swallowed(t) ==
    /\ ~crashed
    /\ Running(t)
    /\ Top(t).pc = "body"
    /\ stack' = [stack EXCEPT ![t][Len(stack[t])] =
           [@ EXCEPT !.pc = "loop", !.idx = @ + 1]]
    /\ UNCHANGED <<dispatcher, cancelled, constructed, crashed, outcome, query>>

\* The running listener raises an exception.  Neither the lambda, for_each
\* nor call_event catches: the exception leaves call_event, whose caller
\* unwinds and destroys the event; it arrives in the code that dispatched
\* the event (the listener of the enclosing dispatch, which handles it or
\* raises in turn, or the protocol layer).
ListenerThrow(t) ==
    /\ ~crashed
    /\ Running(t)
    /\ Top(t).pc = "body"
    /\ stack' = [stack EXCEPT ![t] = SubSeq(@, 1, Len(@) - 1)]
    /\ outcome' = [outcome EXCEPT ![t] = "raised"]
    /\ UNCHANGED <<dispatcher, cancelled, constructed, crashed, query>>

\* A dereference of a dangling iterator kills the process, and with it every
\* thread and the dispatcher.
Crash(t) ==
    /\ ~crashed
    /\ Running(t)
    /\ Top(t).pc = "loop"
    /\ Top(t).dangling
    /\ ~AtEnd(Top(t))
    /\ crashed' = TRUE
    /\ dispatcher' = [k \in Kinds |-> <<>>]
    /\ cancelled' = [u \in Threads |-> FALSE]
    /\ stack' = [u \in Threads |-> <<>>]
    /\ constructed' = 0
    /\ outcome' = [u \in Threads |-> "none"]
    /\ UNCHANGED query

Next ==
    \/ \E k \in Kinds, r \in BOOLEAN : Subscribe(k, r)
    \/ \E t \in Threads, k \in Kinds : Construct(t, k)
    \/ \E t \in Threads : CallEvent(t)
    \/ \E t \in Threads : Invoke(t)
    \/ \E t \in Threads : Skip(t)
    \/ \E t \in Threads : Return(t)
    \/ \E t \in Threads : ListenerCancel(t)
    \/ \E t \in Threads : ListenerReturn(t)
    \/ \E t \in Threads : ListenerThrow(t)
    \/ \E t \in Threads : Crash(t)

Spec == Init /\ [][Next]_vars

\* get_parameter() on its own: interaction events constructed from every
\* option list within the bound, asked for every name.
ParamNext ==
    \/ \E type \in InteractionTypes, options \in OptionLists :
           ConstructInteraction(type, options)
    \/ \E name \in Names : GetParameter(name)

ParamSpec == Init /\ [][ParamNext]_vars

\* The dispatch core together with a protocol layer that receives payloads it
\* cannot decode.
DecodeNext ==
    \/ Next
    \/ \E t \in Threads : Drop(t)

DecodeSpec == Init /\ [][DecodeNext]_vars

\* The dispatch core together with callers that cancel an event before they
\* dispatch it or dispatch the same event object twice.
EntryNext ==
    \/ Next
    \/ \E t \in Threads : CancelBeforeDispatch(t)
    \/ \E t \in Threads : CallEventAgain(t)

EntrySpec == Init /\ [][EntryNext]_vars

\* The thread whose progress LiveSpec assumes; nothing is assumed of the rest.
Scheduled == "shard1"

\* The scheduled thread keeps running: each statement of call_event it has
\* reached is executed, and the listeners it calls come back.  No other thread
\* is assumed to take a step, so a listener of another thread may hang for
\* ever.
LiveSpec ==
    /\ Init /\ [][Next]_vars
    /\ WF_vars(CallEvent(Scheduled))
    /\ WF_vars(Invoke(Scheduled))
    /\ WF_vars(Skip(Scheduled))
    /\ WF_vars(Return(Scheduled))
    /\ WF_vars(ListenerReturn(Scheduled))

----------------------------------------------------------------------------
\* Properties.  A dispatch is judged when for_each has reached vec.end() and
\* call_event is about to return; a dispatch whose vector was reallocated
\* under it (dangling) is outside every property below.

Finished(f) == f.pc = "loop" /\ AtEnd(f)

Sound(f) == f.pc # "constructed" /\ ~f.dangling

\* C1: a dispatch over a chain none of whose listeners calls cancel_event()
\* invokes every listener of the chain exactly once, in registration order.
C1_AllInOrder ==
    \A t \in Threads :
        Running(t) =>
            LET f == Top(t)
            IN  (Finished(f) /\ Sound(f) /\ ~f.chain) => f.calls = f.vec

\* C2: when the listener at place k calls cancel_event(), the dispatch invokes
\* the listeners up to and including k once each and no listener after k.
C2_StopsAfterCanceller ==
    \A t \in Threads :
        Running(t) =>
            LET f == Top(t)
            IN  (Finished(f) /\ Sound(f) /\ f.at > 0)
                    => f.calls = SubSeq(f.vec, 1, f.at)

\* C3: is_cancelled() is false when a dispatch starts, whatever an earlier
\* dispatch left on the thread, so the first listener of the chain is invoked.
C3_NoLeak ==
    \A t \in Threads :
        Running(t) =>
            LET f == Top(t)
            IN  /\ (f.pc = "constructed" \/ (f.pc = "loop" /\ f.idx = 1))
                       => ~is_cancelled(t)
                /\ (Sound(f) /\ f.vec # <<>> /\ (f.pc = "body" \/ f.idx > 1))
                       => (f.calls # <<>> /\ f.calls[1] = f.vec[1])

\* An event constructed on an idle thread whose flag the previous dispatch
\* had left set: its first listener is running.
C3_Witness ==
    \E t \in Threads :
        /\ Len(stack[t]) = 1
        /\ Top(t).leftover
        /\ Top(t).pc = "body"
        /\ Top(t).calls = <<Top(t).vec[1]>>

\* C4: a dispatch sees only the cancel_event() calls of its own thread: while
\* none has run on its thread, is_cancelled() is false and no listener is
\* passed over, whatever the dispatches of the other threads cancel.
C4_ThreadsIsolated ==
    \A t \in Threads :
        Running(t) =>
            LET f == Top(t)
            IN  f.heard = 0 =>
                    /\ ~is_cancelled(t)
                    /\ (Finished(f) /\ Sound(f)) => f.calls = f.vec

\* A dispatch has invoked its two listeners while the dispatch running on
\* another thread is cancelled and has passed a listener over.
C4_Witness ==
    \E t \in Threads, u \in Threads :
        /\ t # u
        /\ Running(t) /\ Running(u)
        /\ Finished(Top(t)) /\ Top(t).heard = 0
        /\ Len(Top(t).vec) >= 2 /\ Top(t).calls = Top(t).vec
        /\ is_cancelled(u) /\ Top(u).at > 0
        /\ Top(u).pc = "loop" /\ Top(u).idx > Len(Top(u).calls) + 1

\* C5: a nested dispatch and the dispatch it was made from keep apart: a
\* listener is passed over exactly when a listener of its own dispatch has
\* called cancel_event() on it.
C5_ReentrantIsolated ==
    \A t \in Threads :
        (Running(t) /\ Top(t).pc = "loop" /\ ~AtEnd(Top(t)))
            => (is_cancelled(t) <=> Top(t).at > 0)

\* C6: is_cancelled() called by a listener through its payload answers
\* whether cancel_event() was called through that payload.
C6_ActsOnOwnDispatch ==
    \A t \in Threads :
        (Running(t) /\ Top(t).pc = "body")
            => (is_cancelled(t) <=> Top(t).cancels > 0)

\* C7: once cancel_event() has been called in a dispatch, once or more,
\* is_cancelled() is true at every later point of that dispatch.
C7_CancelSticks ==
    \A t \in Threads :
        (Running(t) /\ Top(t).pc \in {"loop", "body"} /\ Top(t).cancels >= 1)
            => is_cancelled(t)

\* C8: while a dispatch is in progress on a thread the flag only goes from
\* false to true.
C8_OnlyFalseToTrue ==
    [][\A t \in Threads :
          (Running(t) /\ stack[t][1].pc # "constructed" /\ stack'[t] # <<>>
                /\ cancelled[t])
              => cancelled'[t]]_vars

\* C9: a dispatch over an empty chain does one thing, return: it invokes
\* nothing, and leaves the dispatcher and every thread's flag as they were.
C9_EmptyChainNoOp ==
    [][\A t \in Threads :
          (Running(t) /\ Top(t).pc = "loop" /\ Top(t).vec = <<>>
                /\ ~crashed'
                /\ (Len(stack'[t]) # Len(stack[t])
                       \/ stack'[t][Len(stack[t])] # Top(t)))
              => /\ Top(t).calls = <<>>
                 /\ stack'[t] = SubSeq(stack[t], 1, Len(stack[t]) - 1)
                 /\ dispatcher' = dispatcher
                 /\ cancelled' = cancelled]_vars

\* A dispatch of a kind without listeners is about to return, while another
\* kind has listeners.
C9_Witness ==
    \E t \in Threads :
        /\ Running(t)
        /\ Finished(Top(t))
        /\ Top(t).vec = <<>> /\ Top(t).calls = <<>>
        /\ dispatcher[Top(t).kind] = <<>>
        /\ \E j \in Kinds : dispatcher[j] # <<>>

C11_OwnChainOnly ==
    /\ \A k \in Kinds : \A i \in DOMAIN dispatcher[k] : dispatcher[k][i][1] = k
    /\ \A t \in Threads : \A i \in DOMAIN stack[t] :
           LET f == stack[t][i]
           IN  Sound(f) => \A j \in DOMAIN f.calls : f.calls[j][1] = f.kind

\* An autocomplete dispatch has invoked the autocomplete listener and is about
\* to return, while interaction_create has a listener of its own.
C11_Witness ==
    \E t \in Threads :
        /\ Running(t)
        /\ Finished(Top(t)) /\ Sound(Top(t))
        /\ Top(t).kind = "autocomplete"
        /\ Top(t).calls = << <<"autocomplete", 1>> >>
        /\ dispatcher["interaction_create"] # <<>>

\* C12: after a dispatch that ended by a listener's exception, with or
\* without a cancel_event() before it, the thread's next dispatch starts with
\* is_cancelled() false, and its first listener is invoked.
C12_FailureLeavesNoFlag ==
    \A t \in Threads :
        Running(t) =>
            LET f == Top(t)
            IN  f.prior = "raised" =>
                    /\ (f.pc = "constructed" \/ (f.pc = "loop" /\ f.idx = 1))
                           => ~is_cancelled(t)
                    /\ (Sound(f) /\ f.vec # <<>> /\ (f.pc = "body" \/ f.idx > 1))
                           => (f.calls # <<>> /\ f.calls[1] = f.vec[1])

\* The thread's previous dispatch was cancelled and then ended by an
\* exception; the first listener of its next dispatch is running.
C12_Witness ==
    \E t \in Threads :
        /\ Len(stack[t]) = 1
        /\ Top(t).prior = "raised"
        /\ Top(t).leftover
        /\ Top(t).pc = "body"
        /\ Top(t).calls = <<Top(t).vec[1]>>

\* C13: the step by which a dispatch fails (a listener's exception leaving
\* call_event) never changes the listener vector of any kind.
C13_FailureKeepsRegistry ==
    \A t \in Threads :
        ~ENABLED (ListenerThrow(t) /\ dispatcher' # dispatcher)

\* A dispatch has failed on a thread and the chain it ran over still holds
\* its two listeners, in order.
C13_Witness ==
    \E t \in Threads, k \in Kinds :
        /\ outcome[t] = "raised"
        /\ ~Running(t)
        /\ dispatcher[k] = << <<k, 1>>, <<k, 2>> >>

\* C14: the step by which a dispatch fails on one thread changes neither the
\* flag nor the call_event activations of another thread, and a dispatch on
\* another thread on which no cancel_event() has run is not cancelled and
\* passes no listener over.
C14_FailureIsolated ==
    /\ \A t \in Threads, u \in Threads :
           (t # u /\ outcome[t] = "raised" /\ Running(u) /\ Top(u).heard = 0)
               => /\ ~is_cancelled(u)
                  /\ (Finished(Top(u)) /\ Sound(Top(u)))
                         => Top(u).calls = Top(u).vec
    /\ \A t \in Threads :
           ~ENABLED (/\ ListenerThrow(t)
                     /\ \E u \in Threads \ {t} :
                            \/ cancelled'[u] # cancelled[u]
                            \/ stack'[u] # stack[u])

\* A dispatch was cancelled and then failed on one thread; the dispatch on
\* another thread has invoked its two listeners and is about to return.
C14_Witness ==
    \E t \in Threads, u \in Threads :
        /\ t # u
        /\ outcome[t] = "raised" /\ is_cancelled(t)
        /\ Running(u)
        /\ Finished(Top(u)) /\ Top(u).heard = 0
        /\ Len(Top(u).vec) = 2 /\ Top(u).calls = Top(u).vec

\* C15: call_event can return only when no listener is running, the loop has
\* passed the whole chain, the listeners invoked are the first ones of the
\* chain in order, and the rest were passed over with the event cancelled.
C15_Synchronous ==
    \A t \in Threads :
        ENABLED Return(t) =>
            LET f == Top(t)
            IN  /\ f.pc = "loop"
                /\ Sound(f) =>
                       /\ f.idx = Len(f.vec) + 1
                       /\ f.calls = SubSeq(f.vec, 1, Len(f.calls))
                       /\ Len(f.calls) < Len(f.vec) => is_cancelled(t)

\* call_event is about to return from a chain of three listeners, each of
\* which was invoked and has returned.
C15_Witness ==
    \E t \in Threads :
        /\ Running(t)
        /\ Finished(Top(t)) /\ Sound(Top(t))
        /\ Len(Top(t).vec) = 3
        /\ Top(t).calls = Top(t).vec
        /\ Top(t).idx = 4

\* C16: while a dispatch of another thread is inside a listener, for however
\* long, the dispatch of the scheduled thread runs to its end.
C16_HungListenerStallsOwnOnly ==
    \A t \in Threads \ {Scheduled} :
        (Running(Scheduled) /\ Running(t) /\ Top(t).pc = "body")
            ~> ~Running(Scheduled)

\* One thread is inside a listener while the dispatch of the scheduled
\* thread, of the same kind, has invoked its listener and is about to return.
C16_Witness ==
    \E t \in Threads \ {Scheduled} :
        /\ Running(t) /\ Top(t).pc = "body"
        /\ Running(Scheduled)
        /\ Finished(Top(Scheduled))
        /\ Top(Scheduled).kind = Top(t).kind
        /\ Top(Scheduled).calls # <<>>

\* The step has put one new listener at the end of the chain of kind k and
\* left the chain of every other kind as it was.
Appended(k) ==
    /\ Len(dispatcher'[k]) = Len(dispatcher[k]) + 1
    /\ SubSeq(dispatcher'[k], 1, Len(dispatcher[k])) = dispatcher[k]
    /\ dispatcher'[k][Len(dispatcher'[k])] \notin Range(dispatcher[k])
    /\ \A j \in Kinds \ {k} : dispatcher'[j] = dispatcher[j]

\* C17: a subscribe to kind k puts the listener at the end of k's chain: the
\* chain grows by that one element, what it held stays in front in the same
\* order, and the chain of every other kind is unchanged.
C17_SubscribeAppends ==
    \A k \in Kinds, r \in BOOLEAN :
        ~ENABLED (Subscribe(k, r) /\ ~Appended(k))

\* Two listeners were subscribed to one kind and one to another: each chain
\* holds its own, in the order of subscription.
C17_Witness ==
    \E k \in Kinds, j \in Kinds :
        /\ k # j
        /\ dispatcher[k] = << <<k, 1>>, <<k, 2>> >>
        /\ dispatcher[j] = << <<j, 1>> >>

\* C18: no step of the living process, of a subscribe or of a dispatch,
\* removes or reorders a registration: each chain is a prefix of what it is
\* after the step, and the chain a dispatch found when it was entered is a
\* prefix of the chain at every later point of that dispatch.
C18_AppendOnly ==
    /\ \A t \in Threads : \A i \in DOMAIN stack[t] :
           LET f == stack[t][i]
           IN  /\ Len(f.vec) <= Len(dispatcher[f.kind])
               /\ f.vec = SubSeq(dispatcher[f.kind], 1, Len(f.vec))
    /\ ~ENABLED (/\ Next
                 /\ ~crashed'
                 /\ \E k \in Kinds :
                        \/ Len(dispatcher'[k]) < Len(dispatcher[k])
                        \/ dispatcher[k] #
                               SubSeq(dispatcher'[k], 1, Len(dispatcher[k])))

\* A dispatch entered over a chain of one listener is still in progress and
\* the chain has grown since: the listener it found is still the first.
C18_Witness ==
    \E t \in Threads :
        /\ Running(t)
        /\ Top(t).pc \in {"loop", "body"}
        /\ Len(Top(t).vec) = 1
        /\ Len(dispatcher[Top(t).kind]) > 1
        /\ dispatcher[Top(t).kind][1] = Top(t).vec[1]

\* C19: no chain is appended to while a dispatch iterates it: a dispatch that
\* still has elements to read finds its chain as long as when it was entered.
C19_NoAppendDuringDispatch ==
    \A t \in Threads : \A i \in DOMAIN stack[t] :
        LET f == stack[t][i]
        IN  Iterating(f, f.kind) => Len(dispatcher[f.kind]) = Len(f.vec)

\* C20: while a dispatch of another kind is inside a listener a subscribe to
\* kind k is enabled, and the step it takes leaves the call_event activations
\* of every other kind as they were.
C20_SubscribeNeverBlocked ==
    /\ \A k \in Kinds :
           (/\ ~crashed
            /\ Registered < MaxListeners
            /\ \E t \in Threads :
                   Running(t) /\ Top(t).kind # k /\ Top(t).pc = "body")
               => ENABLED (\E r \in BOOLEAN : Subscribe(k, r))
    /\ \A k \in Kinds, r \in BOOLEAN :
           ~ENABLED (/\ Subscribe(k, r)
                     /\ \E t \in Threads :
                            \/ Len(stack'[t]) # Len(stack[t])
                            \/ \E i \in DOMAIN stack[t] :
                                   /\ stack[t][i].kind # k
                                   /\ stack'[t][i] # stack[t][i])

\* A dispatch of one kind is inside a listener, further registrations are
\* possible, and another kind has a listener.
C20_Witness ==
    \E t \in Threads, k \in Kinds :
        /\ Running(t) /\ Top(t).pc = "body"
        /\ Top(t).kind # k
        /\ Registered < MaxListeners
        /\ dispatcher[k] # <<>>

\* C21: raw_event and from of an event keep the values it was constructed
\* with for as long as the event lives, whatever its listeners do (cancel,
\* dispatch other events, raise, return) and whatever other threads do;
\* cancel_event() changes the thread's flag only.
C21_EnvelopeImmutable ==
    \A t \in Threads : \A i \in DOMAIN stack[t] :
        /\ stack[t][i].raw_event = Raw(stack[t][i].kind)
        /\ stack[t][i].from = t

\* A listener has called cancel_event() twice through its event and has
\* dispatched another event from inside its body, whose listener is running:
\* the outer event has the envelope it was constructed with.
C21_Witness ==
    \E t \in Threads :
        /\ Len(stack[t]) = 2
        /\ stack[t][1].cancels = 2
        /\ stack[t][1].from = t /\ stack[t][1].raw_event = Raw(stack[t][1].kind)
        /\ stack[t][2].kind # stack[t][1].kind
        /\ stack[t][2].pc = "body"

\* The places of the options of the queried event called like the name asked.
Matching == {i \in DOMAIN query.options : query.options[i].name = query.name}

\* C22: get_parameter(name) on a button_click_t, select_click_t or
\* autocomplete_t returns the empty value for every name, whatever options
\* the interaction carries.
C22_DerivedAlwaysAbsent ==
    (query.asked /\ query.type \in InteractionTypes \ {"interaction_create"})
        => query.value = Absent

\* A button click whose interaction carries a non-empty option of the name
\* asked for was answered with the empty value.
C22_Witness ==
    /\ query.asked
    /\ query.type = "button_click"
    /\ \E i \in Matching : query.options[i].value # Absent
    /\ query.value = Absent

\* C23: get_parameter(name) on an interaction_create_t returns the value of
\* an option of that name when the command has one, and the empty value when
\* it has none.
C23_BaseResolvesName ==
    (query.asked /\ query.type = "interaction_create")
        => IF Matching = {}
           THEN query.value = Absent
           ELSE query.value \in {query.options[i].value : i \in Matching}

\* An interaction whose command has a second option of the name asked for,
\* after one of another name, was answered with that option's value.
C23_Witness ==
    /\ query.asked
    /\ query.type = "interaction_create"
    /\ Len(query.options) = 2
    /\ Matching = {2}
    /\ query.options[2].value = "text"
    /\ query.value = "text"

\* C24: a payload that cannot be decoded is dropped before any dispatch: the
\* step constructs no event, enters no call_event, invokes no listener and
\* leaves the listener vectors and the flags as they were.
C24_DecodeErrorDropsEvent ==
    /\ \A t \in Threads : outcome[t] = "dropped" => ~Running(t)
    /\ \A t \in Threads :
           ~ENABLED (/\ Drop(t)
                     /\ \/ stack' # stack
                        \/ constructed' # constructed
                        \/ dispatcher' # dispatcher
                        \/ cancelled' # cancelled)

\* A payload was dropped on a thread whose earlier dispatch had invoked a
\* listener: the thread is idle, and the chains hold listeners.
C24_Witness ==
    \E t \in Threads :
        /\ outcome[t] = "dropped"
        /\ ~Running(t)
        /\ constructed > 0
        /\ \E k \in Kinds : Len(dispatcher[k]) >= 2

\* C25: when the listener at place k raises, the listeners before it have
\* been invoked once each, in order, and k is the last one invoked; the
\* exception is not caught: call_event is left at once, so no later listener
\* of the chain is invoked, and its caller sees the failure.
C25_FailFast ==
    \A t \in Threads :
        /\ (Running(t) /\ Top(t).pc = "body" /\ Sound(Top(t)))
               => Top(t).calls = SubSeq(Top(t).vec, 1, Top(t).idx)
        /\ ~ENABLED (/\ ListenerThrow(t)
                     /\ \/ stack'[t] # SubSeq(stack[t], 1, Len(stack[t]) - 1)
                        \/ outcome'[t] # "raised")

\* The second listener of a chain dispatched an event whose dispatch failed:
\* the failure has reached it, the caller, and it is still running.
C25_Witness ==
    \E t \in Threads :
        /\ outcome[t] = "raised"
        /\ Len(stack[t]) = 1
        /\ Top(t).pc = "body"
        /\ Top(t).idx = 2
        /\ Top(t).calls = SubSeq(Top(t).vec, 1, 2)

\* The listeners the specified algorithm invokes for the dispatch of frame f:
\* it gives the dispatch a cancellation context of its own and stops at the
\* first check that finds it cancelled, that is after the listener that first
\* called cancel_event() through the event (f.at), or at the end of the chain.
Specified(f) == IF f.at = 0 THEN f.vec ELSE SubSeq(f.vec, 1, f.at)

\* C26: call_event, which passes over the listeners it finds cancelled, has
\* invoked the same sequence of listeners when it returns as the specified
\* algorithm, which stops at the first check that finds the dispatch
\* cancelled.
C26_SameAsBreakingLoop ==
    \A t \in Threads :
        Running(t) =>
            LET f == Top(t)
            IN  (Finished(f) /\ Sound(f)) => f.calls = Specified(f)

\* The number of listeners the loop of frame f has reached so far.
Reached(f) == IF f.pc = "body" THEN f.idx ELSE f.idx - 1

\* C27: two threads that dispatch two events of one kind over the same chain
\* at the same time, no cancel_event() being called on either thread, have
\* each invoked, at every point of every interleaving, exactly the listeners
\* their own loop has reached, once each and in registration order, and so
\* the whole chain when they return.
C27_SharedChainNoInterference ==
    \A t \in Threads, u \in Threads :
        (/\ t # u
         /\ Len(stack[t]) = 1 /\ Len(stack[u]) = 1
         /\ Top(t).kind = Top(u).kind
         /\ Sound(Top(t)) /\ Sound(Top(u))
         /\ Top(t).vec = Top(u).vec
         /\ Top(t).heard = 0 /\ Top(u).heard = 0)
            => /\ Top(t).calls = SubSeq(Top(t).vec, 1, Reached(Top(t)))
               /\ Finished(Top(t)) => Top(t).calls = Top(t).vec

\* One thread is inside the second listener of a chain while another thread
\* has invoked both listeners of the same chain and is about to return.
C27_Witness ==
    \E t \in Threads, u \in Threads :
        /\ t # u
        /\ Len(stack[t]) = 1 /\ Len(stack[u]) = 1
        /\ Top(t).kind = Top(u).kind
        /\ Top(t).vec = Top(u).vec /\ Len(Top(t).vec) = 2
        /\ Sound(Top(t)) /\ Sound(Top(u))
        /\ Top(t).heard = 0 /\ Top(u).heard = 0
        /\ Top(t).pc = "body" /\ Top(t).idx = 2
        /\ Finished(Top(u)) /\ Top(u).calls = Top(u).vec

\* C28: call_event leaves the cancellation flag as it finds it, and a
\* call_event entered while is_cancelled() is true for its event invokes no
\* listener of the chain: it is never inside a listener and its list of
\* invoked listeners stays empty until it returns.
C28_CancelledOnEntryInvokesNone ==
    \A t \in Threads :
        /\ Running(t) =>
               LET f == Top(t)
               IN  (f.pc # "constructed" /\ f.entered)
                       => /\ f.pc = "loop"
                          /\ f.calls = <<>>
                          /\ is_cancelled(t)
        /\ ~ENABLED (/\ \/ CallEvent(t)
                        \/ CallEventAgain(t)
                        \/ Skip(t)
                        \/ Invoke(t)
                        \/ Return(t)
                     /\ cancelled' # cancelled)

\* A call_event entered with the flag already set has passed over both
\* listeners of its chain and is about to return without having invoked one.
C28_Witness ==
    \E t \in Threads :
        /\ Running(t)
        /\ Top(t).entered
        /\ Finished(Top(t)) /\ Sound(Top(t))
        /\ Len(Top(t).vec) = 2
        /\ Top(t).calls = <<>>

\* The same event is in call_event for the second time, after a listener of
\* the first pass cancelled it, and no listener has been invoked.
C28_WitnessAgain ==
    \E t \in Threads :
        /\ Running(t)
        /\ Top(t).entered /\ Top(t).at > 0
        /\ Finished(Top(t)) /\ Len(Top(t).vec) = 2
        /\ Top(t).calls = <<>>

\* Every call_event in progress on a chain that had N listeners when it was
\* entered has made at most N invocations, none of them of a listener it had
\* invoked before.
AtMostOnceEach ==
    \A t \in Threads :
        \A n \in DOMAIN stack[t] :
            LET f == stack[t][n]
            IN  f.pc # "constructed" =>
                    /\ Len(f.calls) <= f.last
                    /\ Sound(f) =>
                           \A i \in DOMAIN f.calls, j \in DOMAIN f.calls :
                               f.calls[i] = f.calls[j] => i = j

\* C29: a dispatch terminates whenever its listeners do: a call_event on a
\* chain of N listeners makes at most N invocations, invokes no listener
\* twice and, every listener it invokes coming back, comes back itself (the
\* stack of the scheduled thread falls below every depth it reaches).
C29_DispatchTerminates ==
    /\ []AtMostOnceEach
    /\ \A n \in 1..MaxEvents :
           (Len(stack[Scheduled]) >= n) ~> (Len(stack[Scheduled]) < n)

\* The scheduled thread has invoked each of the three listeners of its chain
\* once and is about to return, no other thread being in a dispatch.
C29_Witness ==
    /\ Len(stack[Scheduled]) = 1
    /\ \A u \in Threads \ {Scheduled} : ~Running(u)
    /\ Finished(Top(Scheduled)) /\ Sound(Top(Scheduled))
    /\ Top(Scheduled).last = 3
    /\ Len(Top(Scheduled).calls) = 3
    /\ Top(Scheduled).heard = 0

====
